---------------------------- MODULE Spec2Model ----------------------------
(***************************************************************************)
(* A model of the hex_color crate: the HexColor value, its text codec      *)
(* (FromStr / Display, src/src/lib.rs) and its arithmetic operators        *)
(* (src/src/ops.rs).                                                       *)
(*                                                                         *)
(* A string is a sequence of one-character strings.  An Option<T> is a     *)
(* sequence of length 0 (None) or 1 (Some).                                *)
(***************************************************************************)
EXTENDS Integers, Sequences, FiniteSets

VARIABLES
    s,        \* the &str handed to HexColor::from_str
    color,    \* Option<HexColor>: the value handed to Display::fmt
    parsed,   \* the Result returned by from_str (tag "None" before the call)
    text,     \* Option<String>: the output of to_string
    overflow_checks,  \* the build profile: TRUE when integer overflow panics
    lhs,      \* the HexColor operand of an operator: the left one, or the
              \* right one of <scalar> <op> HexColor
    rhs,      \* the other operand of the operator applied (kind "none" before)
    res,      \* the outcome of the operator (tag "None" before)
    value,    \* the HexColor variable on the left of the compound assignments
    initial,  \* what value was declared with
    steps     \* the number of compound assignments executed on value

codec_vars == <<s, color, parsed, text>>
ops_vars == <<overflow_checks, lhs, rhs, res>>
assign_vars == <<value, initial, steps>>
vars == <<s, color, parsed, text, overflow_checks, lhs, rhs, res,
          value, initial, steps>>

None == <<>>
Some(v) == <<v>>

---------------------------------------------------------------------------
(* Bounds of the model and the samples the inputs are drawn from.          *)

\* largest number of hex digits in a generated body
MaxBody == 9

\* hex digits the bodies are built from: the digits of "#000f" (lib.rs:33)
HexSample == {"0", "f"}

\* what may stand before the body (after the leading whitespace)
PreSample == {<<>>, <<"#">>, <<"#", "#">>, <<"G">>}

\* what may stand after the body (before the trailing whitespace)
PostSample == {<<>>, <<"G">>}

LeadSample == {<<>>, <<" ">>}

TrailSample == {<<>>, <<"\t">>}

\* channel values of the colors handed to Display
ByteSample == {0, 1, 9, 10, 15, 16, 127, 255}

Bodies == UNION {[1..n -> HexSample] : n \in 0..MaxBody}

Inputs ==
    {lead \o pre \o body \o post \o trail :
        lead \in LeadSample, pre \in PreSample, body \in Bodies,
        post \in PostSample, trail \in TrailSample}

---------------------------------------------------------------------------
(* Characters.                                                             *)

UpperHex == <<"0","1","2","3","4","5","6","7","8","9","A","B","C","D","E","F">>

LowerHex == <<"0","1","2","3","4","5","6","7","8","9","a","b","c","d","e","f">>

\* the class [[:xdigit:]]
is_xdigit(c) == \E i \in 1..16 : c = UpperHex[i] \/ c = LowerHex[i]

\* char::to_digit(16) of a hex digit
to_digit(c) == (CHOOSE i \in 1..16 : c = UpperHex[i] \/ c = LowerHex[i]) - 1

\* char::is_whitespace, on the characters of the model
is_whitespace(c) == c \in {" ", "\t", "\n"}

RECURSIVE trim_start(_)
trim_start(str) ==
    IF str # <<>> /\ is_whitespace(Head(str)) THEN trim_start(Tail(str)) ELSE str

RECURSIVE trim_end(_)
trim_end(str) ==
    IF str # <<>> /\ is_whitespace(str[Len(str)])
    THEN trim_end(SubSeq(str, 1, Len(str) - 1))
    ELSE str

\* mutant of trim: only the leading whitespace is removed
trim_leading_only(str) == trim_start(str)

\* str::trim
trim(str) == trim_end(trim_start(str))

\* str::to_uppercase, on the characters of the model
to_uppercase(str) ==
    [k \in 1..Len(str) |->
        IF \E i \in 11..16 : str[k] = LowerHex[i]
        THEN UpperHex[CHOOSE i \in 11..16 : str[k] = LowerHex[i]]
        ELSE IF str[k] = "g" THEN "G" ELSE str[k]]

\* str::to_lowercase, on the characters of the model
to_lowercase(str) ==
    [k \in 1..Len(str) |->
        IF \E i \in 11..16 : str[k] = UpperHex[i]
        THEN LowerHex[CHOOSE i \in 11..16 : str[k] = UpperHex[i]]
        ELSE IF str[k] = "G" THEN "g" ELSE str[k]]

\* str::repeat(2)
repeat2(str) == str \o str

\* u8::from_str_radix(str, 16): Some(value), or None on an empty string, a
\* character that is no hex digit, or a value above u8::MAX
RECURSIVE radix_value(_)
radix_value(str) ==
    IF str = <<>> THEN 0
    ELSE 16 * radix_value(SubSeq(str, 1, Len(str) - 1)) + to_digit(str[Len(str)])

from_str_radix(str) ==
    IF str = <<>> \/ (\E k \in 1..Len(str) : ~is_xdigit(str[k])) THEN None
    ELSE IF Len(str) > 2 THEN None
    ELSE Some(radix_value(str))

---------------------------------------------------------------------------
(* The regular expressions of lib.rs.  A match is a record; group is the   *)
(* name of the capture group that took part in it.                         *)

NoMatch == [matched |-> FALSE, group |-> "", str |-> <<>>]
Match(g, str) == [matched |-> TRUE, group |-> g, str |-> str]

\* [[:xdigit:]]{n} at position i of t
xdigits_at(t, i, n) ==
    /\ i + n - 1 <= Len(t)
    /\ \A k \in i..(i + n - 1) : is_xdigit(t[k])

\* The alternatives of HEX_COLOR tried at position i, in the order written.
\* The alternation binds weaker than the anchors: ^#? belongs to the first
\* alternative only and $ to the last only.
hex_color_at(t, i) ==
    IF i = 1 /\ Len(t) >= 1 /\ t[1] = "#" /\ xdigits_at(t, 2, 8)
        THEN Match("la", SubSeq(t, 2, 9))
    ELSE IF i = 1 /\ xdigits_at(t, 1, 8)
        THEN Match("la", SubSeq(t, 1, 8))
    ELSE IF xdigits_at(t, i, 6)
        THEN Match("l", SubSeq(t, i, i + 5))
    ELSE IF xdigits_at(t, i, 4)
        THEN Match("sa", SubSeq(t, i, i + 3))
    ELSE IF xdigits_at(t, i, 3) /\ i + 2 = Len(t)
        THEN Match("s", SubSeq(t, i, i + 2))
    ELSE NoMatch

\* HEX_COLOR.captures(t): the leftmost match, and at that position the first
\* alternative that matches
HEX_COLOR(t) ==
    IF \E i \in 1..Len(t) : hex_color_at(t, i).matched
    THEN hex_color_at(t,
            CHOOSE i \in 1..Len(t) :
                /\ hex_color_at(t, i).matched
                /\ \A j \in 1..(i - 1) : ~hex_color_at(t, j).matched)
    ELSE NoMatch

\* ^(X{w})...(X{w})$ with n groups: Some(the groups), or None
groups_of(str, n, w) ==
    IF Len(str) = n * w /\ xdigits_at(str, 1, n * w)
    THEN Some([k \in 1..n |-> SubSeq(str, (k - 1) * w + 1, k * w)])
    ELSE None

LA_COLOR(str) == groups_of(str, 4, 2)
L_COLOR(str) == groups_of(str, 3, 2)
SA_COLOR(str) == groups_of(str, 4, 1)
S_COLOR(str) == groups_of(str, 3, 1)

---------------------------------------------------------------------------
(* HexColor, FromStr and Display.                                          *)

HexColor(r, g, b, a) == [r |-> r, g |-> g, b |-> b, a |-> a]
rgb(r, g, b) == HexColor(r, g, b, None)
rgba(r, g, b, a) == HexColor(r, g, b, Some(a))

NotCalled == [tag |-> "None", color |-> <<>>, err |-> <<>>]
Ok(c) == [tag |-> "Ok", color |-> <<c>>, err |-> <<>>]
\* Err(ParseHexColorError(input.trim()))
Err_trimmed(input) == [tag |-> "Err", color |-> <<>>, err |-> <<trim(input)>>]

\* Err(ParseHexColorError(input))
Err(input) == [tag |-> "Err", color |-> <<>>, err |-> <<input>>]

which(component) ==
    CASE component = "r" -> 1
      [] component = "g" -> 2
      [] component = "b" -> 3
      [] component = "a" -> 4

\* c.get(which(component)): the group, or None when the match has no such group
get(c, component) ==
    IF which(component) <= Len(c) THEN Some(c[which(component)]) ELSE None

\* Option<u8>: the component of a long form
get_long(c, component) ==
    IF get(c, component) = None THEN None
    ELSE from_str_radix(get(c, component)[1])

\* mutant of get_short: the digit is not written twice
get_short_single(c, component) ==
    IF get(c, component) = None THEN None
    ELSE from_str_radix(get(c, component)[1])

\* Option<u8>: the component of a short form, its digit written twice
get_short(c, component) ==
    IF get(c, component) = None THEN None
    ELSE from_str_radix(repeat2(get(c, component)[1]))

\* mutant of build: the alpha component is never stored
build_without_alpha(input, r, g, b, a, with_alpha) ==
    IF r = None \/ g = None \/ b = None \/ (with_alpha /\ a = None)
    THEN Err(input)
    ELSE Ok(HexColor(r[1], g[1], b[1], None))

\* the struct literal of a branch of from_str; each ? returns the error
build(input, r, g, b, a, with_alpha) ==
    IF r = None \/ g = None \/ b = None \/ (with_alpha /\ a = None)
    THEN Err(input)
    ELSE Ok(HexColor(r[1], g[1], b[1], IF with_alpha THEN Some(a[1]) ELSE None))

from_str(input) ==
    LET c == HEX_COLOR(trim(input)) IN
    IF ~c.matched THEN Err(input)
    ELSE IF c.group = "la" THEN
        LET m == LA_COLOR(c.str) IN
        IF m = None THEN Err(input)
        ELSE build(input, get_long(m[1], "r"), get_long(m[1], "g"),
                   get_long(m[1], "b"), get_long(m[1], "a"), TRUE)
    ELSE IF c.group = "l" THEN
        LET m == L_COLOR(c.str) IN
        IF m = None THEN Err(input)
        ELSE build(input, get_long(m[1], "r"), get_long(m[1], "g"),
                   get_long(m[1], "b"), None, FALSE)
    ELSE IF c.group = "sa" THEN
        LET m == SA_COLOR(c.str) IN
        IF m = None THEN Err(input)
        ELSE build(input, get_short(m[1], "r"), get_short(m[1], "g"),
                   get_short(m[1], "b"), get_short(m[1], "a"), TRUE)
    ELSE IF c.group = "s" THEN
        LET m == S_COLOR(c.str) IN
        IF m = None THEN Err(input)
        ELSE build(input, get_short(m[1], "r"), get_short(m[1], "g"),
                   get_short(m[1], "b"), None, FALSE)
    ELSE Err(input)

\* mutant of upper_hex_02: {:02x?}, lower-case digits
lower_hex_02(v) == <<LowerHex[(v \div 16) + 1], LowerHex[(v % 16) + 1]>>

\* mutant of upper_hex_02: {:X?}, no zero padding
upper_hex_unpadded(v) ==
    IF v < 16 THEN <<UpperHex[v + 1]>>
    ELSE <<UpperHex[(v \div 16) + 1], UpperHex[(v % 16) + 1]>>

\* {:02X?} of a u8: two upper-case hex digits, zero-padded
upper_hex_02(v) == <<UpperHex[(v \div 16) + 1], UpperHex[(v % 16) + 1]>>

\* mutant of fmt: the alpha component is never written
fmt_without_alpha(c) ==
    <<"#">> \o upper_hex_02(c.r) \o upper_hex_02(c.g) \o upper_hex_02(c.b)

\* Display::fmt
fmt(c) ==
    IF c.a = None
    THEN <<"#">> \o upper_hex_02(c.r) \o upper_hex_02(c.g) \o upper_hex_02(c.b)
    ELSE <<"#">> \o upper_hex_02(c.r) \o upper_hex_02(c.g) \o upper_hex_02(c.b)
                 \o upper_hex_02(c.a[1])

\* the operands and outcomes of the operators of ops.rs
NoOperand == [kind |-> "none", color |-> <<>>, ty |-> <<>>, n |-> <<>>]
ColorOperand(c) == [kind |-> "color", color |-> <<c>>, ty |-> <<>>, n |-> <<>>]
ScalarOperand(t, n) == [kind |-> "scalar", color |-> <<>>, ty |-> <<t>>, n |-> <<n>>]
\* the scalar on the left of <scalar> <op> HexColor
SelfScalar(t, n) == [kind |-> "self", color |-> <<>>, ty |-> <<t>>, n |-> <<n>>]

NoResult == [op |-> "", tag |-> "None", color |-> <<>>]
Value(op, c) == [op |-> op, tag |-> "Value", color |-> <<c>>]
Panic(op) == [op |-> op, tag |-> "Panic", color |-> <<>>]

---------------------------------------------------------------------------
(* The scalar types of add_impl!, sub_impl!, mul_impl! and div_impl!.  The *)
(* macros expand the same body for every type; the model instantiates it   *)
(* for the integer types whose values the model checker's integers hold.   *)

IntType(signed, bits) == [signed |-> signed, bits |-> bits]
u8 == IntType(FALSE, 8)
u16 == IntType(FALSE, 16)
i8 == IntType(TRUE, 8)
i16 == IntType(TRUE, 16)
i32 == IntType(TRUE, 32)

IntTypes == {u8, u16, i8, i16, i32}

\* <$t>::MAX and <$t>::MIN, computed without leaving the range of i32
MAX(t) ==
    IF t.signed THEN (2^(t.bits - 2) - 1) + 2^(t.bits - 2) ELSE 2^t.bits - 1

MIN(t) == IF t.signed THEN (-MAX(t)) - 1 ELSE 0

\* `v as $t` for a u8 v: only i8 cannot hold every u8
as_t(t, v) == IF v > MAX(t) THEN v - 256 ELSE v

\* `v as u8`: the low eight bits
as_u8(v) == v % 256

\* x + y leaves the range of t
add_overflows(t, x, y) ==
    IF y >= 0 THEN x > MAX(t) - y ELSE x < MIN(t) - y

\* x - y leaves the range of t
sub_overflows(t, x, y) ==
    IF y >= 0 THEN x < MIN(t) + y ELSE x > MAX(t) + y

\* x * y leaves the range of t; a negative x comes only from `as i8`
mul_overflows(t, x, y) ==
    IF x = 0 \/ y = 0 THEN FALSE
    ELSE IF x > 0 THEN y > MAX(t) \div x \/ y < (MIN(t) + (x - 1)) \div x
    ELSE x * y > MAX(t) \/ x * y < MIN(t)

\* x / y leaves the range of t: MIN / -1
div_overflows(t, x, y) == t.signed /\ x = MIN(t) /\ y = -1

\* two's complement arithmetic of t, as a build without overflow checks does
wrapping_add(t, x, y) ==
    IF ~add_overflows(t, x, y) THEN x + y
    ELSE IF y >= 0 THEN ((x - MAX(t)) + (y - 1)) + MIN(t)
    ELSE ((x - MIN(t)) + (y + 1)) + MAX(t)

wrapping_neg(t, y) ==
    IF t.signed THEN (IF y = MIN(t) THEN y ELSE -y)
    ELSE (IF y = 0 THEN 0 ELSE (MAX(t) - y) + 1)

wrapping_sub(t, x, y) == wrapping_add(t, x, wrapping_neg(t, y))

RECURSIVE wrapping_mul(_, _, _)
wrapping_mul(t, x, y) ==
    IF x = 0 THEN 0
    ELSE IF x < 0 THEN wrapping_neg(t, wrapping_mul(t, -x, y))
    ELSE LET half == wrapping_mul(t, x \div 2, y)
             twice == wrapping_add(t, half, half)
         IN IF x % 2 = 1 THEN wrapping_add(t, twice, y) ELSE twice

\* the quotient rounded toward zero
truncated_div(t, x, y) ==
    IF t.signed /\ y = MIN(t) THEN (IF x = MIN(t) THEN 1 ELSE 0)
    ELSE LET ax == IF x < 0 THEN -x ELSE x
             ay == IF y < 0 THEN -y ELSE y
         IN IF (x < 0) = (y < 0) THEN ax \div ay ELSE -(ax \div ay)

\* `x + y`, `x - y`, `x * y`, `x / y` in $t: Some(value), or None for a panic.
\* Overflow panics in a build with overflow checks and wraps in one without;
\* a zero divisor and MIN / -1 panic in every build.
int_add(t, checks, x, y) ==
    IF add_overflows(t, x, y) /\ checks THEN None ELSE Some(wrapping_add(t, x, y))

int_sub(t, checks, x, y) ==
    IF sub_overflows(t, x, y) /\ checks THEN None ELSE Some(wrapping_sub(t, x, y))

int_mul(t, checks, x, y) ==
    IF mul_overflows(t, x, y) /\ checks THEN None ELSE Some(wrapping_mul(t, x, y))

int_div(t, checks, x, y) ==
    IF y = 0 \/ div_overflows(t, x, y) THEN None ELSE Some(truncated_div(t, x, y))

\* Ord::clamp: asserts min <= max, so None (a panic) when min > max
clamp(v, min, max) ==
    IF min > max THEN None
    ELSE IF v < min THEN Some(min)
    ELSE IF v > max THEN Some(max)
    ELSE Some(v)

\* the closure calc of the four macros:
\* (s as $t <op> other).clamp(u8::MIN as $t, u8::MAX as $t) as u8
calc(t, op, checks, sv, other) ==
    LET v == CASE op = "add" -> int_add(t, checks, as_t(t, sv), other)
               [] op = "sub" -> int_sub(t, checks, as_t(t, sv), other)
               [] op = "mul" -> int_mul(t, checks, as_t(t, sv), other)
               [] op = "div" -> int_div(t, checks, as_t(t, sv), other)
    IN IF v = None THEN None
       ELSE LET c == clamp(v[1], as_t(t, 0), as_t(t, 255)) IN
            IF c = None THEN None ELSE Some(as_u8(c[1]))

\* HexColor <op> $t: the struct literal of the macros, a panic in any
\* component being a panic of the operator
scalar_op(t, op, checks, self, other) ==
    LET r == calc(t, op, checks, self.r, other)
        g == calc(t, op, checks, self.g, other)
        b == calc(t, op, checks, self.b, other)
        a == IF self.a = None THEN Some(None)
             ELSE LET av == calc(t, op, checks, self.a[1], other) IN
                  IF av = None THEN None ELSE Some(av)
    IN IF r = None \/ g = None \/ b = None \/ a = None
       THEN Panic(op)
       ELSE Value(op, HexColor(r[1], g[1], b[1], a[1]))

\* $t + HexColor over the three channels only
scalar_add_rgb_only(t, checks, self, other) ==
    scalar_op(t, "add", checks, rgb(other.r, other.g, other.b), self)

\* $t + HexColor: other + self
scalar_add(t, checks, self, other) == scalar_op(t, "add", checks, other, self)

\* $t - HexColor: other - self
scalar_sub(t, checks, self, other) == scalar_op(t, "sub", checks, other, self)

\* $t * HexColor: other * self
scalar_mul(t, checks, self, other) == scalar_op(t, "mul", checks, other, self)

---------------------------------------------------------------------------
(* HexColor + HexColor and HexColor - HexColor.                            *)

\* mutant of saturating_add: the sum wraps
wrapping_add_u8(x, y) == (x + y) % 256

\* u8::saturating_add, u8::saturating_sub
saturating_add(x, y) == IF x + y > 255 THEN 255 ELSE x + y

saturating_sub(x, y) == IF x - y < 0 THEN 0 ELSE x - y

\* the closures handed to alpha_op, called by name
call(op, a, o) ==
    CASE op = "saturating_add" -> saturating_add(a, o)
      [] op = "saturating_sub" -> saturating_sub(a, o)

\* mutant of alpha_op: None as soon as either alpha is None
alpha_op_either_none(self_a, other_a, op) ==
    IF other_a = None \/ self_a = None THEN None
    ELSE Some(call(op, self_a[1], other_a[1]))

alpha_op(self_a, other_a, op) ==
    IF other_a = None THEN self_a
    ELSE IF self_a # None THEN Some(call(op, self_a[1], other_a[1]))
    ELSE None

add(self, other) ==
    HexColor(saturating_add(self.r, other.r),
             saturating_add(self.g, other.g),
             saturating_add(self.b, other.b),
             alpha_op(self.a, other.a, "saturating_add"))

\* HexColor - HexColor with the alphas taken in the other order
sub_alpha_of_other(self, other) ==
    HexColor(saturating_sub(self.r, other.r),
             saturating_sub(self.g, other.g),
             saturating_sub(self.b, other.b),
             alpha_op(other.a, self.a, "saturating_sub"))

sub(self, other) ==
    HexColor(saturating_sub(self.r, other.r),
             saturating_sub(self.g, other.g),
             saturating_sub(self.b, other.b),
             alpha_op(self.a, other.a, "saturating_sub"))

---------------------------------------------------------------------------
(* The compound assignments: AddAssign, SubAssign (HexColor and $t),       *)
(* MulAssign and DivAssign ($t), and their forms for a borrowed operand.   *)

\* &other
RefOperand(other) ==
    [other EXCEPT !.kind = IF @ = "color" THEN "&color" ELSE "&scalar"]

\* *other
deref(other) ==
    [other EXCEPT !.kind = IF @ = "&color" THEN "color" ELSE "scalar"]

\* *self = other + *self
op_assign_swapped(op, checks, self, other) ==
    IF other.kind = "color"
    THEN Value(op, IF op = "add" THEN add(other.color[1], self)
                   ELSE sub(other.color[1], self))
    ELSE scalar_op(other.ty[1], op, checks, self, other.n[1])

\* *self = *self <op> other: what is stored in *self, or the panic of the
\* operator, which leaves *self as it was
op_assign(op, checks, self, other) ==
    IF other.kind = "color"
    THEN Value(op, IF op = "add" THEN add(self, other.color[1])
                   ELSE sub(self, other.color[1]))
    ELSE scalar_op(other.ty[1], op, checks, self, other.n[1])

\* forward_ref_op_assign: $trait::$method(self, *other)
op_assign_ref(op, checks, self, other) ==
    op_assign(op, checks, self, deref(other))

---------------------------------------------------------------------------
(* Spec: a string is parsed, and a parsed color is written back.           *)

\* the operators' variables while only the codec runs
OpsIdle ==
    /\ overflow_checks = FALSE
    /\ lhs = rgb(0, 0, 0)
    /\ rhs = NoOperand
    /\ res = NoResult

\* the variable of the compound assignments while none is executed
AssignIdle ==
    /\ value = rgb(0, 0, 0)
    /\ initial = rgb(0, 0, 0)
    /\ steps = 0

Init ==
    /\ s \in Inputs
    /\ color = None
    /\ parsed = NotCalled
    /\ text = None
    /\ OpsIdle
    /\ AssignIdle

\* s.parse::<HexColor>()
FromStr ==
    /\ parsed = NotCalled
    /\ parsed' = from_str(s)
    /\ color' = parsed'.color
    /\ UNCHANGED <<s, text>>
    /\ UNCHANGED ops_vars
    /\ UNCHANGED assign_vars

\* color.to_string()
Display ==
    /\ color # None
    /\ text = None
    /\ text' = Some(fmt(color[1]))
    /\ UNCHANGED <<s, color, parsed>>
    /\ UNCHANGED ops_vars
    /\ UNCHANGED assign_vars

Next == FromStr \/ Display

Spec == Init /\ [][Next]_vars

---------------------------------------------------------------------------
(* SpecFormat: a color is written, and what was written is parsed again.   *)

Colors ==
    {HexColor(r, g, b, a) :
        r \in ByteSample, g \in ByteSample, b \in ByteSample,
        a \in {None} \cup {Some(v) : v \in ByteSample}}

InitFormat ==
    /\ s = <<>>
    /\ color \in {Some(c) : c \in Colors}
    /\ parsed = NotCalled
    /\ text = None
    /\ OpsIdle
    /\ AssignIdle

\* color.to_string().parse::<HexColor>()
Reparse ==
    /\ text # None
    /\ parsed = NotCalled
    /\ s' = text[1]
    /\ parsed' = from_str(text[1])
    /\ UNCHANGED <<color, text>>
    /\ UNCHANGED ops_vars
    /\ UNCHANGED assign_vars

NextFormat == Display \/ Reparse

SpecFormat == InitFormat /\ [][NextFormat]_vars

---------------------------------------------------------------------------
(* SpecOps: one operator of ops.rs is applied to a color.                  *)

\* channel values of the operands
OpBytes == {0, 2, 255}

OpColors ==
    {HexColor(r, g, b, a) :
        r \in OpBytes, g \in OpBytes, b \in OpBytes,
        a \in {None} \cup {Some(v) : v \in OpBytes}}

\* scalars of type t: small values, the ends of u8 and the ends of t
Scalars(t) ==
    {n \in {-1, 0, 1, 2, 3, 255, 256} : MIN(t) <= n /\ n <= MAX(t)}
        \cup {MIN(t), MAX(t)}

CodecIdle ==
    /\ s = <<>>
    /\ color = None
    /\ parsed = NotCalled
    /\ text = None

InitOps ==
    /\ CodecIdle
    /\ overflow_checks \in BOOLEAN
    /\ lhs \in OpColors
    /\ rhs = NoOperand
    /\ res = NoResult
    /\ AssignIdle

\* lhs + other
Add ==
    /\ res = NoResult
    /\ \E other \in OpColors :
        /\ rhs' = ColorOperand(other)
        /\ res' = Value("add", add(lhs, other))
    /\ UNCHANGED <<overflow_checks, lhs>>
    /\ UNCHANGED codec_vars
    /\ UNCHANGED assign_vars

\* lhs - other
Sub ==
    /\ res = NoResult
    /\ \E other \in OpColors :
        /\ rhs' = ColorOperand(other)
        /\ res' = Value("sub", sub(lhs, other))
    /\ UNCHANGED <<overflow_checks, lhs>>
    /\ UNCHANGED codec_vars
    /\ UNCHANGED assign_vars

\* lhs <op> other for a scalar other of type t
ApplyScalar(t, op, other) ==
    /\ rhs' = ScalarOperand(t, other)
    /\ res' = scalar_op(t, op, overflow_checks, lhs, other)
    /\ UNCHANGED <<overflow_checks, lhs>>
    /\ UNCHANGED codec_vars
    /\ UNCHANGED assign_vars

\* lhs + other
AddScalar ==
    /\ res = NoResult
    /\ \E t \in IntTypes : \E other \in Scalars(t) : ApplyScalar(t, "add", other)

\* lhs - other
SubScalar ==
    /\ res = NoResult
    /\ \E t \in IntTypes : \E other \in Scalars(t) : ApplyScalar(t, "sub", other)

\* lhs * other
MulScalar ==
    /\ res = NoResult
    /\ \E t \in IntTypes : \E other \in Scalars(t) : ApplyScalar(t, "mul", other)

\* lhs / other
DivScalar ==
    /\ res = NoResult
    /\ \E t \in IntTypes : \E other \in Scalars(t) : ApplyScalar(t, "div", other)

\* self + lhs for a scalar self
ScalarAdd ==
    /\ res = NoResult
    /\ \E t \in IntTypes : \E self \in Scalars(t) :
        /\ rhs' = SelfScalar(t, self)
        /\ res' = scalar_add(t, overflow_checks, self, lhs)
    /\ UNCHANGED <<overflow_checks, lhs>>
    /\ UNCHANGED codec_vars
    /\ UNCHANGED assign_vars

\* self - lhs for a scalar self
ScalarSub ==
    /\ res = NoResult
    /\ \E t \in IntTypes : \E self \in Scalars(t) :
        /\ rhs' = SelfScalar(t, self)
        /\ res' = scalar_sub(t, overflow_checks, self, lhs)
    /\ UNCHANGED <<overflow_checks, lhs>>
    /\ UNCHANGED codec_vars
    /\ UNCHANGED assign_vars

\* self * lhs for a scalar self
ScalarMul ==
    /\ res = NoResult
    /\ \E t \in IntTypes : \E self \in Scalars(t) :
        /\ rhs' = SelfScalar(t, self)
        /\ res' = scalar_mul(t, overflow_checks, self, lhs)
    /\ UNCHANGED <<overflow_checks, lhs>>
    /\ UNCHANGED codec_vars
    /\ UNCHANGED assign_vars

NextOps ==
    \/ Add \/ Sub
    \/ AddScalar \/ SubScalar \/ MulScalar \/ DivScalar
    \/ ScalarAdd \/ ScalarSub \/ ScalarMul

SpecOps == InitOps /\ [][NextOps]_vars

---------------------------------------------------------------------------
(* SpecAssign: a variable is declared with a color and compound            *)
(* assignments are executed on it, one after the other, until one panics.  *)

\* largest number of compound assignments executed on value
MaxSteps == 2

AssignColors == {c \in OpColors : c.r = 0 /\ c.g = 2 /\ c.b = 255}

AssignScalars(t) == {n \in Scalars(t) : n \in {-1, 0, 2, 255, MAX(t)}}

\* the right operands: a color or a scalar, passed by value or borrowed
AssignOperands ==
    LET byValue == {ColorOperand(c) : c \in AssignColors}
            \cup UNION {{ScalarOperand(t, n) : n \in AssignScalars(t)} :
                            t \in IntTypes}
    IN byValue \cup {RefOperand(o) : o \in byValue}

InitAssign ==
    /\ CodecIdle
    /\ overflow_checks \in BOOLEAN
    /\ value \in AssignColors
    /\ initial = value
    /\ lhs = value
    /\ rhs = NoOperand
    /\ res = NoResult
    /\ steps = 0

\* let other = ...: the right operand of the next compound assignment
Bind ==
    /\ steps < MaxSteps
    /\ rhs = NoOperand \/ res.tag = "Value"
    /\ rhs' \in AssignOperands
    /\ lhs' = value
    /\ res' = NoResult
    /\ UNCHANGED <<overflow_checks, value, initial, steps>>
    /\ UNCHANGED codec_vars

\* value <op>= rhs
Assign(op) ==
    /\ res' = IF rhs.kind \in {"&color", "&scalar"}
              THEN op_assign_ref(op, overflow_checks, value, rhs)
              ELSE op_assign(op, overflow_checks, value, rhs)
    /\ value' = IF res'.tag = "Value" THEN res'.color[1] ELSE value
    /\ steps' = steps + 1
    /\ UNCHANGED <<overflow_checks, lhs, rhs, initial>>
    /\ UNCHANGED codec_vars

\* value += rhs for a color rhs
AddAssign ==
    /\ res = NoResult
    /\ rhs.kind \in {"color", "&color"}
    /\ Assign("add")

\* value -= rhs for a color rhs
SubAssign ==
    /\ res = NoResult
    /\ rhs.kind \in {"color", "&color"}
    /\ Assign("sub")

\* value += rhs for a scalar rhs
AddAssignScalar ==
    /\ res = NoResult
    /\ rhs.kind \in {"scalar", "&scalar"}
    /\ Assign("add")

\* value -= rhs for a scalar rhs
SubAssignScalar ==
    /\ res = NoResult
    /\ rhs.kind \in {"scalar", "&scalar"}
    /\ Assign("sub")

\* value *= rhs
MulAssign ==
    /\ res = NoResult
    /\ rhs.kind \in {"scalar", "&scalar"}
    /\ Assign("mul")

\* value /= rhs
DivAssign ==
    /\ res = NoResult
    /\ rhs.kind \in {"scalar", "&scalar"}
    /\ Assign("div")

NextAssign ==
    \/ Bind
    \/ AddAssign \/ SubAssign
    \/ AddAssignScalar \/ SubAssignScalar \/ MulAssign \/ DivAssign

SpecAssign == InitAssign /\ [][NextAssign]_vars

---------------------------------------------------------------------------
(* The text codec's properties.  What the specification calls the body of  *)
(* an input is defined here from the specification's words, apart from     *)
(* trim and the regular expressions above.                                 *)

HexChars ==
    {"0","1","2","3","4","5","6","7","8","9",
     "a","b","c","d","e","f","A","B","C","D","E","F"}

Blank == {" ", "\t", "\n"}

\* str without the whitespace around it
Trimmed(str) ==
    IF \A k \in 1..Len(str) : str[k] \in Blank THEN <<>>
    ELSE LET first == CHOOSE i \in 1..Len(str) :
                        /\ str[i] \notin Blank
                        /\ \A j \in 1..(i - 1) : str[j] \in Blank
             last == CHOOSE i \in 1..Len(str) :
                        /\ str[i] \notin Blank
                        /\ \A j \in (i + 1)..Len(str) : str[j] \in Blank
         IN SubSeq(str, first, last)

\* the trimmed input without its one optional leading marker
Body(str) ==
    LET t == Trimmed(str) IN
    IF t # <<>> /\ t[1] = "#" THEN Tail(t) ELSE t

AllHex(str) == \A k \in 1..Len(str) : str[k] \in HexChars

WellFormed(str) == AllHex(Body(str)) /\ Len(Body(str)) \in {3, 4, 6, 8}

\* '#' followed by exactly 6 or exactly 8 hex digits
Canonical(str) ==
    /\ Len(str) \in {7, 9}
    /\ str[1] = "#"
    /\ AllHex(Tail(str))

\* every digit of a shorthand body written twice
Doubled(body) == [k \in 1..(2 * Len(body)) |-> body[(k + 1) \div 2]]

\* the value of an upper-case hex digit, -1 for any other character
UpperValue(c) ==
    IF \E i \in 1..16 : UpperHex[i] = c
    THEN (CHOOSE i \in 1..16 : UpperHex[i] = c) - 1
    ELSE -1

\* C1: once from_str has returned, an input whose body is not made of
\* exactly 3, 4, 6 or 8 hex digits has produced an Err and no color.
C1_MalformedBodyRejected ==
    (parsed.tag # "None" /\ ~WellFormed(s))
        => (parsed.tag = "Err" /\ parsed.color = None)

\* C2: an accepted input with a body of 3 or 6 hex digits yields a color
\* without alpha, and one with a body of 4 or 8 hex digits a color with
\* alpha; the body 000f yields alpha 255.
C2_AlphaByBodyLength ==
    (parsed.tag = "Ok" /\ WellFormed(s)) =>
        /\ Len(Body(s)) \in {3, 6} => parsed.color[1].a = None
        /\ Len(Body(s)) \in {4, 8} => Len(parsed.color[1].a) = 1
        /\ Body(s) = <<"0", "0", "0", "f">> => parsed.color[1].a = Some(255)
        /\ Body(s) = <<"0", "0", "0">> => parsed.color[1].a = None

C2_Witness ==
    /\ s = <<"#", "0", "0", "0", "f">>
    /\ parsed = Ok(rgba(0, 0, 0, 255))

\* C3: a 3- or 4-digit body parses to the color of the body with every
\* digit doubled (alpha absent for 3 digits, present for 4), and each digit
\* d becomes the byte 16*d + d.
C3_ShorthandEquivalence ==
    (parsed.tag # "None" /\ WellFormed(s) /\ Len(Body(s)) \in {3, 4}) =>
        LET body == Body(s)
            c == parsed.color[1]
        IN /\ parsed.tag = "Ok"
           /\ parsed = Ok(from_str(Doubled(body)).color[1])
           /\ from_str(Doubled(body)).tag = "Ok"
           /\ c.r = 16 * to_digit(body[1]) + to_digit(body[1])
           /\ c.g = 16 * to_digit(body[2]) + to_digit(body[2])
           /\ c.b = 16 * to_digit(body[3]) + to_digit(body[3])
           /\ Len(body) = 3 => c.a = None
           /\ Len(body) = 4 =>
                c.a = Some(16 * to_digit(body[4]) + to_digit(body[4]))

C3_Witness ==
    /\ s = <<"0", "f", "0", "f">>
    /\ parsed = Ok(rgba(0, 255, 0, 255))

\* C4: an input with a well-formed body parses to the same color as the
\* bare body, the body behind one '#', the body in upper case, the body in
\* lower case, and the input with more whitespace around it.
C4_LenientParse ==
    (parsed.tag # "None" /\ WellFormed(s)) =>
        LET body == Body(s) IN
        /\ parsed.tag = "Ok"
        /\ from_str(body) = Ok(parsed.color[1])
        /\ from_str(<<"#">> \o body) = Ok(parsed.color[1])
        /\ from_str(to_uppercase(body)) = Ok(parsed.color[1])
        /\ from_str(to_lowercase(body)) = Ok(parsed.color[1])
        /\ from_str(<<"#">> \o to_uppercase(body)) = Ok(parsed.color[1])
        /\ from_str(<<"\n", " ">> \o s \o <<" ", "\t", "\n">>).color = parsed.color

C4_Witness ==
    /\ s = <<" ", "#", "f", "0", "f", "\t">>
    /\ parsed = Ok(rgb(255, 0, 255))

\* C5: a canonical string ('#' and 6 or 8 hex digits) parses, and the
\* parsed color is written as that string in upper case.
C5_StringRoundTrip ==
    Canonical(s) =>
        /\ parsed.tag # "None" => parsed.tag = "Ok"
        /\ text # None => text[1] = to_uppercase(s)

C5_Witness ==
    /\ s = <<"#", "0", "f", "f", "0", "0", "f", "f", "f">>
    /\ text = Some(<<"#", "0", "F", "F", "0", "0", "F", "F", "F">>)

\* C6: what Display writes for a color parses back to that color, alpha
\* flag included.
C6_ValueRoundTrip ==
    (color # None /\ text # None /\ parsed.tag # "None") => parsed = Ok(color[1])

C6_Witness ==
    /\ color = Some(rgba(10, 16, 255, 0))
    /\ parsed = Ok(rgba(10, 16, 255, 0))
    /\ s = <<"#", "0", "A", "1", "0", "F", "F", "0", "0">>

\* C7: Display writes '#', then two upper-case zero-padded hex digits for
\* each of r, g, b in that order, then two for alpha exactly when alpha is
\* present: 7 characters without alpha, 9 with it.
C7_CanonicalFormat ==
    (color # None /\ text # None) =>
        LET c == color[1]
            out == text[1]
            byte(k) == 16 * UpperValue(out[k]) + UpperValue(out[k + 1])
        IN /\ Len(out) = (IF c.a = None THEN 7 ELSE 9)
           /\ out[1] = "#"
           /\ \A k \in 2..Len(out) : UpperValue(out[k]) \in 0..15
           /\ byte(2) = c.r
           /\ byte(4) = c.g
           /\ byte(6) = c.b
           /\ c.a # None => byte(8) = c.a[1]

C7_Witness ==
    /\ color = Some(rgb(9, 10, 255))
    /\ text = Some(<<"#", "0", "9", "0", "A", "F", "F">>)

\* C14: from_str returns exactly one outcome for every input, one color
\* or one ParseHexColorError, and the error carries the input as it was
\* passed, its surrounding whitespace included.
C14_ParseIsTotal ==
    parsed # NotCalled =>
        \/ /\ parsed.tag = "Ok"
           /\ Len(parsed.color) = 1
           /\ parsed.err = <<>>
        \/ /\ parsed.tag = "Err"
           /\ parsed.color = <<>>
           /\ parsed.err = <<s>>

C14_Witness ==
    /\ parsed.tag = "Err"
    /\ parsed.err = <<s>>
    /\ Len(s) > 0
    /\ is_whitespace(s[1])
    /\ is_whitespace(s[Len(s)])

---------------------------------------------------------------------------
(* The operators' properties.                                              *)

Least(x, y) == IF x < y THEN x ELSE y
Greatest(x, y) == IF x > y THEN x ELSE y

\* the exact result of ch <op> n for a channel ch in 0..255, clamped to
\* [0, 255] (the quotient rounded toward zero), written so that no
\* intermediate value leaves the range of the scalar n
Clamped(op, ch, n) ==
    CASE op = "add" ->
            IF n >= 255 - ch THEN 255 ELSE IF n <= -ch THEN 0 ELSE ch + n
      [] op = "sub" ->
            IF n >= ch THEN 0 ELSE IF n <= ch - 255 THEN 255 ELSE ch - n
      [] op = "mul" ->
            IF ch = 0 \/ n <= 0 THEN 0
            ELSE IF n >= 255 THEN 255
            ELSE Least(255, ch * n)
      [] op = "div" ->
            IF n < 0 THEN 0 ELSE ch \div n

\* C8: HexColor + HexColor and HexColor - HexColor always return a color,
\* each of r, g, b being min(255, x + y) for + and max(0, x - y) for -.
C8_ColorSaturation ==
    (rhs.kind = "color" /\ res.tag # "None") =>
        LET x == lhs
            y == rhs.color[1]
            z == res.color[1]
        IN /\ res.tag = "Value"
           /\ {z.r, z.g, z.b} \subseteq 0..255
           /\ res.op = "add" =>
                /\ z.r = Least(255, x.r + y.r)
                /\ z.g = Least(255, x.g + y.g)
                /\ z.b = Least(255, x.b + y.b)
           /\ res.op = "sub" =>
                /\ z.r = Greatest(0, x.r - y.r)
                /\ z.g = Greatest(0, x.g - y.g)
                /\ z.b = Greatest(0, x.b - y.b)

C8_Witness ==
    /\ lhs = rgb(255, 2, 0)
    /\ rhs = ColorOperand(rgb(255, 2, 255))
    /\ res = Value("add", rgb(255, 4, 255))

\* C9: for HexColor + HexColor and HexColor - HexColor the alpha of the
\* result is the saturating operation on both alphas when both are present,
\* the left alpha when only the left is present, and absent when the left
\* is absent.
C9_AlphaPropagation ==
    (rhs.kind = "color" /\ res.tag = "Value") =>
        LET la == lhs.a
            ra == rhs.color[1].a
            out == res.color[1].a
        IN /\ (la # None /\ ra # None /\ res.op = "add") =>
                out = Some(Least(255, la[1] + ra[1]))
           /\ (la # None /\ ra # None /\ res.op = "sub") =>
                out = Some(Greatest(0, la[1] - ra[1]))
           /\ (la # None /\ ra = None) => out = la
           /\ la = None => out = None

C9_Witness ==
    /\ lhs = rgba(0, 0, 0, 2)
    /\ rhs = ColorOperand(rgb(2, 2, 2))
    /\ res = Value("sub", rgba(0, 0, 0, 2))

\* C10: HexColor <op> n for an integer n of any of the scalar types (n # 0
\* for /) returns a color whose channels, and alpha when present, are the
\* exact results of the operation clamped to [0, 255].
C10_ScalarClampAfterOperate ==
    (rhs.kind = "scalar" /\ res.tag # "None"
        /\ ~(res.op = "div" /\ rhs.n[1] = 0)) =>
        /\ res.tag = "Value"
        /\ LET n == rhs.n[1]
               z == res.color[1]
           IN /\ z.r = Clamped(res.op, lhs.r, n)
              /\ z.g = Clamped(res.op, lhs.g, n)
              /\ z.b = Clamped(res.op, lhs.b, n)
              /\ lhs.a = None => z.a = None
              /\ lhs.a # None => z.a = Some(Clamped(res.op, lhs.a[1], n))

\* the exact result of n - ch for a channel ch in 0..255, clamped to
\* [0, 255], written so that no intermediate value leaves the range of n
ClampedFrom(n, ch) ==
    IF n <= ch THEN 0 ELSE Least(255, n - ch)

\* C11: n - HexColor for an integer n returns a color whose channels, and
\* alpha when present, are n minus the channel value clamped to [0, 255]
\* (and not the channel value minus n).
C11_ScalarFirstSubIsMirror ==
    (rhs.kind = "self" /\ res.op = "sub" /\ res.tag = "Value") =>
        LET n == rhs.n[1]
            z == res.color[1]
        IN /\ z.r = ClampedFrom(n, lhs.r)
           /\ z.g = ClampedFrom(n, lhs.g)
           /\ z.b = ClampedFrom(n, lhs.b)
           /\ lhs.a = None => z.a = None
           /\ lhs.a # None => z.a = Some(ClampedFrom(n, lhs.a[1]))

\* C12: n + c has the outcome of c + n and n * c has the outcome of c * n
\* for every color c and every integer scalar n: the same channels and the
\* same alpha (value and presence), or no value from either.
C12_ScalarCommutativity ==
    (rhs.kind = "self" /\ res.op \in {"add", "mul"}) =>
        res = scalar_op(rhs.ty[1], res.op, overflow_checks, lhs, rhs.n[1])

C12_Witness ==
    /\ lhs = rgba(2, 0, 255, 2)
    /\ rhs = SelfScalar(i32, 3)
    /\ res = Value("mul", rgba(6, 0, 255, 6))

\* C13: of HexColor + HexColor, HexColor - HexColor and HexColor <op> n
\* for an integer n, only a division by n = 0 fails; every other operation
\* returns a color.
C13_OnlyDivisionByZeroFails ==
    (rhs.kind \in {"color", "scalar"} /\ res.tag # "None") =>
        (res.tag = "Panic" <=> (res.op = "div" /\ rhs.n = Some(0)))

---------------------------------------------------------------------------
(* The compound assignments' properties.                                   *)

\* lhs <op> other, the binary operator, for an operand passed either way
Binary(op, other) ==
    IF other.color # <<>>
    THEN Value(op, IF op = "add" THEN add(lhs, other.color[1])
                   ELSE sub(lhs, other.color[1]))
    ELSE scalar_op(other.ty[1], op, overflow_checks, lhs, other.n[1])

\* C15: after value <op>= v, for a color or an integer scalar v passed by
\* value or by reference, value holds what (old value) <op> v returns (and
\* is left as it was when that panics), and executing the assignment does
\* not change v.
C15_CompoundAssignment ==
    /\ [](res.tag # "None" =>
            /\ res = Binary(res.op, rhs)
            /\ value = IF res.tag = "Value" THEN res.color[1] ELSE lhs)
    /\ [][(res = NoResult /\ res' # NoResult) => rhs' = rhs]_vars

C15_Witness ==
    /\ lhs = rgba(0, 2, 255, 2)
    /\ rhs = RefOperand(ScalarOperand(i32, 2))
    /\ res = Value("mul", rgba(0, 4, 255, 4))
    /\ value = rgba(0, 4, 255, 4)

InByte(v) == v \in 0..255

\* C16: through any sequence of completed compound assignments the alpha
\* of value is present exactly when it was present at the start, every
\* channel and a present alpha are in 0..255, and the result of each
\* operation has an alpha exactly when its left operand has one.
C16_AlphaPresenceInvariant ==
    /\ value.a = None <=> initial.a = None
    /\ InByte(value.r) /\ InByte(value.g) /\ InByte(value.b)
    /\ value.a # None => InByte(value.a[1])
    /\ res.tag = "Value" => (res.color[1].a = None <=> lhs.a = None)

C16_Witness ==
    /\ steps = 2
    /\ initial.a = None
    /\ rhs.kind = "color"
    /\ rhs.color[1].a # None
    /\ res.tag = "Value"
    /\ value.a = None
    /\ value # initial

===========================================================================
